---- MODULE Spec2Model ----
(***************************************************************************)
(* A model of WifiComm (udp_comm.py): one UDP socket shared by a receive   *)
(* thread, any number of cyclic send threads and the caller's own control  *)
(* flow.  struct.pack / struct.unpack are modelled on byte sequences       *)
(* (native little-endian layout), the threads by their program counters.   *)
(***************************************************************************)
EXTENDS Integers, Sequences, FiniteSets, TLC

\* ------------------------------------------------------------------ bounds
MaxRx == 2          \* Thread objects for __receive_thread the model can hold
MaxCyclic == 2      \* Thread objects for __send_cyclic_thread the model can hold
MaxEvents == 4      \* events in one behaviour: cyclic sends started, datagrams
                    \* received, sendto calls made, WARNING lines printed
MaxTime == 12       \* last tick of the clock
MaxLen == 2         \* longest payload put through encode and decode

\* ------------------------------------------------------------- struct codec
Formats == {"B", "b", "H"}

\* struct.calcsize of one element
calcsize(fmt) == IF fmt = "H" THEN 2 ELSE 1

\* struct.pack taking any value, never raising
fits_any(fmt, v) == TRUE

\* the values struct.pack accepts for one element
fits(fmt, v) ==
    CASE fmt = "B" -> v >= 0 /\ v <= 255
      [] fmt = "b" -> v >= -128 /\ v <= 127
      [] OTHER     -> v >= 0 /\ v <= 65535

\* struct.pack(fmt, v) for a value that fits: the bytes, least significant first
struct_pack(fmt, v) ==
    CASE fmt = "B" -> <<v>>
      [] fmt = "b" -> <<v % 256>>
      [] OTHER     -> <<v % 256, v \div 256>>

\* unpack_one with every one-byte element read as signed
unpack_one_signed(fmt, bs) ==
    IF fmt = "H" THEN bs[1] + 256 * bs[2]
    ELSE IF bs[1] >= 128 THEN bs[1] - 256 ELSE bs[1]

\* one element read back from the bytes at 1..calcsize(fmt)
unpack_one(fmt, bs) ==
    CASE fmt = "B" -> bs[1]
      [] fmt = "b" -> IF bs[1] >= 128 THEN bs[1] - 256 ELSE bs[1]
      [] OTHER     -> bs[1] + 256 * bs[2]

\* struct.unpack(fmt * n, raw): struct.error unless raw is n elements long
struct_unpack(fmt, n, raw) ==
    IF Len(raw) # n * calcsize(fmt)
      THEN [ok |-> FALSE, data |-> <<>>]
      ELSE [ok |-> TRUE,
            data |-> [i \in 1..n |->
                        unpack_one(fmt, SubSeq(raw, (i - 1) * calcsize(fmt) + 1,
                                                    i * calcsize(fmt)))]]

\* decode with the element count rounded down, a trailing partial element ignored
decode_floor(fmt, raw_data) ==
    LET n == Len(raw_data) \div calcsize(fmt)
    IN  struct_unpack(fmt, n, SubSeq(raw_data, 1, n * calcsize(fmt)))

\* the decode of __receive_thread: the format string repeated len(raw_data) times
decode(fmt, raw_data) == struct_unpack(fmt, Len(raw_data), raw_data)

RECURSIVE pack_from(_, _, _)
\* the for loop of __pack_tx_data from index i on: the bytes packed and one
\* "pack" warning for each value struct.pack refused
pack_from(send_data, fmt, i) ==
    IF i > Len(send_data)
      THEN [all_data |-> <<>>, warned |-> <<>>]
      ELSE LET rest == pack_from(send_data, fmt, i + 1)
           IN  IF fits(fmt, send_data[i])
                 THEN [all_data |-> struct_pack(fmt, send_data[i]) \o rest.all_data,
                       warned   |-> rest.warned]
                 ELSE [all_data |-> rest.all_data,
                       warned   |-> <<"pack">> \o rest.warned]

pack_tx_data(send_data, fmt) == pack_from(send_data, fmt, 1)

\* ------------------------------------------------------------------- state
RxIds == 1..MaxRx            \* Thread objects made by run_receive_thread
CycIds == 1..MaxCyclic       \* Thread objects made by run_send_cyclic_thread
MainCaller == 1              \* the thread of __main__
Callers == {MainCaller, MainCaller + 1}
EmptyList == 0               \* the list() t1_receive starts as

\* datagrams the peer may send, send_data lists the caller may pass
RawSamples == {<<7>>, <<255, 1>>}
SendSamples == {<<1>>, <<300>>, <<255, 300>>}

Marker == "------>"

VARIABLES
    t1_receive,     \* EmptyList, or the Thread object run_receive_thread stored
    t1_stop,        \* stop flag of the receive loop
    t2_stop,        \* stop flag of the cyclic send loops
    mutex,          \* 0 when free, else the receive thread that holds it
    buffer,         \* the list of [recv_data] entries
    format_string,  \* the format __receive_thread unpacks with
    rx,             \* receive threads: pc and the locals raw_data, recv_data
    cyc,            \* cyclic send threads: pc, arguments, end of the sleep
    cpc,            \* callers: position inside run_receive_thread
    writes,         \* history: the sendto calls made, in order
    warnings,       \* history: the WARNING lines printed, in order
    decoded,        \* history: every recv_data struct.unpack returned
    received,       \* history: the number of datagrams recvfrom returned
    lateRecv,       \* history: recvfrom calls a thread completed with t1_stop set
    noop,           \* history: a run_receive_thread call found a Thread stored
    lateCall,       \* history: a run_receive_thread call came after the loop's exit
    snapshot,       \* the Buffer as the caller last read it, <<>> before that
    lateSend,       \* history: sendto calls a thread made with t2_stop set
    bornStopped,    \* history: the thread was created with t2_stop set
    now,            \* the clock, in ticks
    timing,         \* history: when the cyclic send was started and stopped
    codec           \* a payload on its way through encode and decode

rxVars == <<t1_receive, t1_stop, mutex, buffer, format_string, rx, cpc,
            decoded, received, lateRecv, noop>>
txVars == <<t2_stop, cyc, writes>>
timeVars == <<now, timing>>
obsVars == <<lateCall, snapshot, lateSend, bornStopped>>
vars == <<rxVars, txVars, warnings, timeVars, codec, obsVars>>

NoRx == [pc |-> "none", raw_data |-> <<>>, recv_data |-> <<>>]
NoCyc == [pc |-> "none", send_data |-> <<>>, fmt |-> "B", interval |-> 0, wake |-> 0]
NoCodec == [pc |-> "none", v |-> <<>>, fmt |-> "B", dfmt |-> "B", msg |-> <<>>,
            out |-> [ok |-> FALSE, data |-> <<>>]]

\* __init__, lines 44-53; the element format is the one configurable field
InitProgram ==
    /\ t1_receive = EmptyList
    /\ t1_stop = FALSE
    /\ t2_stop = FALSE
    /\ mutex = 0
    /\ buffer = << <<Marker>> >>
    /\ format_string \in {"B", "H"}
    /\ rx = [k \in RxIds |-> NoRx]
    /\ cyc = [i \in CycIds |-> NoCyc]
    /\ cpc = [c \in Callers |-> "idle"]
    /\ writes = <<>>
    /\ warnings = <<>>
    /\ decoded = <<>>
    /\ received = 0
    /\ lateRecv = [k \in RxIds |-> 0]
    /\ noop = FALSE
    /\ lateCall = FALSE
    /\ snapshot = <<>>
    /\ lateSend = [i \in CycIds |-> 0]
    /\ bornStopped = [i \in CycIds |-> FALSE]
    /\ now = 0
    /\ timing = [startAt |-> -1, stopAt |-> -1]

Init == InitProgram /\ codec = NoCodec

\* --------------------------------------------------- room left in the histories
RECURSIVE SumOver(_, _)
SumOver(S, f) ==
    IF S = {} THEN 0
    ELSE LET x == CHOOSE y \in S : TRUE IN f[x] + SumOver(S \ {x}, f)

\* sendto calls and WARNING lines a send_message call adds whatever the
\* transport does
NeedEvents(send_data, fmt) ==
    LET p == pack_tx_data(send_data, fmt)
    IN  Len(p.warned) + 1

Sending == {i \in CycIds : cyc[i].pc = "send"}

\* the events the send loops that passed their check are about to add
Due == SumOver(Sending, [i \in CycIds |-> NeedEvents(cyc[i].send_data, cyc[i].fmt)])

Started == {i \in CycIds : cyc[i].pc # "none"}

\* n more events fit into the behaviour
Room(n) ==
    Cardinality(Started) + received + Len(writes) + Len(warnings) + Due + n
        <= MaxEvents

\* --------------------------------------------------------- the receive thread
\* the guard of run_receive_thread left out
isinstance_list_always(x) == TRUE

\* the guard asking whether the Thread stored has ended: t1_receive.is_alive()
isinstance_list_or_ended(x) == x = EmptyList \/ rx[x].pc = "done"

\* isinstance(self.t1_receive, list)
isinstance_list(x) == x = EmptyList

\* recvfrom calls completed with the stop flag set, counted up to two
late(k) == IF t1_stop /\ lateRecv[k] < 2
             THEN [lateRecv EXCEPT ![k] = @ + 1] ELSE lateRecv

\* rx_check with the loop condition never false
rx_check_ignores_stop(k) ==
    /\ rx[k].pc = "check"
    /\ rx' = [rx EXCEPT ![k].pc = "recv"]
    /\ UNCHANGED <<t1_receive, t1_stop, mutex, buffer, format_string, cpc,
                   decoded, received, lateRecv, noop, txVars, warnings, timeVars, codec>>

\* while not self.t1_stop
rx_check(k) ==
    /\ rx[k].pc = "check"
    /\ rx' = [rx EXCEPT ![k].pc = IF t1_stop THEN "done" ELSE "recv"]
    /\ UNCHANGED <<t1_receive, t1_stop, mutex, buffer, format_string, cpc,
                   decoded, received, lateRecv, noop, txVars, warnings, timeVars, codec>>

\* rx_timeout with the time-out reported like any other socket.error
rx_timeout_warns(k) ==
    /\ rx[k].pc = "recv"
    /\ rx' = [rx EXCEPT ![k].pc = "check"]
    /\ warnings' = Append(warnings, "recv")
    /\ lateRecv' = late(k)
    /\ UNCHANGED <<t1_receive, t1_stop, mutex, buffer, format_string, cpc,
                   decoded, received, noop, txVars, timeVars, codec>>

\* recvfrom raises socket.error 'timed out': pass
rx_timeout(k) ==
    /\ rx[k].pc = "recv"
    /\ rx' = [rx EXCEPT ![k].pc = "check"]
    /\ lateRecv' = late(k)
    /\ UNCHANGED <<t1_receive, t1_stop, mutex, buffer, format_string, cpc,
                   decoded, received, noop, txVars, warnings, timeVars, codec>>

\* rx_error with the exception ending the thread
rx_error_exits(k) ==
    /\ rx[k].pc = "recv"
    /\ rx' = [rx EXCEPT ![k].pc = "done"]
    /\ warnings' = Append(warnings, "recv")
    /\ lateRecv' = late(k)
    /\ UNCHANGED <<t1_receive, t1_stop, mutex, buffer, format_string, cpc,
                   decoded, received, noop, txVars, timeVars, codec>>

\* recvfrom raises another socket.error: print the warning
rx_error(k) ==
    /\ rx[k].pc = "recv"
    /\ rx' = [rx EXCEPT ![k].pc = "check"]
    /\ warnings' = Append(warnings, "recv")
    /\ lateRecv' = late(k)
    /\ UNCHANGED <<t1_receive, t1_stop, mutex, buffer, format_string, cpc,
                   decoded, received, noop, txVars, timeVars, codec>>

\* rx_data with struct.error not caught: the thread ends
rx_data_crash(k, raw) ==
    /\ rx[k].pc = "recv"
    /\ LET r == decode(format_string, raw)
       IN  IF r.ok
             THEN /\ rx' = [rx EXCEPT ![k] = [pc |-> "acquire", raw_data |-> raw,
                                              recv_data |-> r.data]]
                  /\ decoded' = Append(decoded, r.data)
                  /\ UNCHANGED warnings
             ELSE /\ rx' = [rx EXCEPT ![k].pc = "done", ![k].raw_data = raw]
                  /\ warnings' = Append(warnings, "unpack")
                  /\ UNCHANGED decoded
    /\ received' = received + 1
    /\ lateRecv' = late(k)
    /\ UNCHANGED <<t1_receive, t1_stop, mutex, buffer, format_string, cpc,
                   noop, txVars, timeVars, codec>>

\* recvfrom returns raw: struct.unpack it; struct.error prints the warning,
\* otherwise the thread goes on to the critical section
rx_data(k, raw) ==
    /\ rx[k].pc = "recv"
    /\ LET r == decode(format_string, raw)
       IN  IF r.ok
             THEN /\ rx' = [rx EXCEPT ![k] = [pc |-> "acquire", raw_data |-> raw,
                                              recv_data |-> r.data]]
                  /\ decoded' = Append(decoded, r.data)
                  /\ UNCHANGED warnings
             ELSE /\ rx' = [rx EXCEPT ![k].pc = "check", ![k].raw_data = raw]
                  /\ warnings' = Append(warnings, "unpack")
                  /\ UNCHANGED decoded
    /\ received' = received + 1
    /\ lateRecv' = late(k)
    /\ UNCHANGED <<t1_receive, t1_stop, mutex, buffer, format_string, cpc,
                   noop, txVars, timeVars, codec>>

\* rx_release with the mutex kept over the next recvfrom: nothing is released
rx_release_skipped(k) ==
    /\ rx[k].pc = "release"
    /\ rx' = [rx EXCEPT ![k].pc = "check"]
    /\ UNCHANGED <<t1_receive, t1_stop, mutex, buffer, format_string, cpc,
                   decoded, received, lateRecv, noop, txVars, warnings, timeVars, codec>>

\* self.mutex.acquire()
rx_acquire(k) ==
    /\ rx[k].pc = "acquire"
    /\ mutex = 0
    /\ mutex' = k
    /\ rx' = [rx EXCEPT ![k].pc = "append"]
    /\ UNCHANGED <<t1_receive, t1_stop, buffer, format_string, cpc,
                   decoded, received, lateRecv, noop, txVars, warnings, timeVars, codec>>

\* rx_append with = in place of +=
rx_append_overwrite(k) ==
    /\ rx[k].pc = "append"
    /\ buffer' = << <<rx[k].recv_data>> >>
    /\ rx' = [rx EXCEPT ![k].pc = "release"]
    /\ UNCHANGED <<t1_receive, t1_stop, mutex, format_string, cpc,
                   decoded, received, lateRecv, noop, txVars, warnings, timeVars, codec>>

\* rx_append with the new entry put in front of the payloads, newest first
rx_append_newest_first(k) ==
    /\ rx[k].pc = "append"
    /\ buffer' = <<buffer[1]>> \o << <<rx[k].recv_data>> >> \o Tail(buffer)
    /\ rx' = [rx EXCEPT ![k].pc = "release"]
    /\ UNCHANGED <<t1_receive, t1_stop, mutex, format_string, cpc,
                   decoded, received, lateRecv, noop, txVars, warnings, timeVars, codec>>

\* self.buffer += [[recv_data]]
rx_append(k) ==
    /\ rx[k].pc = "append"
    /\ buffer' = buffer \o << <<rx[k].recv_data>> >>
    /\ rx' = [rx EXCEPT ![k].pc = "release"]
    /\ UNCHANGED <<t1_receive, t1_stop, mutex, format_string, cpc,
                   decoded, received, lateRecv, noop, txVars, warnings, timeVars, codec>>

\* self.mutex.release()
rx_release(k) ==
    /\ rx[k].pc = "release"
    /\ mutex' = 0
    /\ rx' = [rx EXCEPT ![k].pc = "check"]
    /\ UNCHANGED <<t1_receive, t1_stop, buffer, format_string, cpc,
                   decoded, received, lateRecv, noop, txVars, warnings, timeVars, codec>>

\* ------------------------------------------------------- run_receive_thread
\* if isinstance(self.t1_receive, list): ... else the call returns
rrt_check(c) ==
    /\ cpc[c] = "idle"
    /\ IF isinstance_list(t1_receive)
         THEN cpc' = [cpc EXCEPT ![c] = "create"] /\ UNCHANGED noop
         ELSE noop' = TRUE /\ UNCHANGED cpc
    /\ UNCHANGED <<t1_receive, t1_stop, mutex, buffer, format_string, rx,
                   decoded, received, lateRecv,
                   txVars, warnings, timeVars, codec>>

\* self.t1_receive = threading.Thread(target=self.__receive_thread, args=[])
rrt_create(c) ==
    /\ cpc[c] = "create"
    /\ \E k \in RxIds :
         /\ rx[k].pc = "none"
         /\ \A j \in RxIds : j < k => rx[j].pc # "none"
         /\ rx' = [rx EXCEPT ![k].pc = "new"]
         /\ t1_receive' = k
    /\ cpc' = [cpc EXCEPT ![c] = "start"]
    /\ UNCHANGED <<t1_stop, mutex, buffer, format_string,
                   decoded, received, lateRecv, noop, txVars, warnings, timeVars, codec>>

\* self.t1_receive.start(): the Thread stored now; one started already
\* raises RuntimeError in the caller
rrt_start(c) ==
    /\ cpc[c] = "start"
    /\ rx' = IF rx[t1_receive].pc = "new"
               THEN [rx EXCEPT ![t1_receive].pc = "check"] ELSE rx
    /\ cpc' = [cpc EXCEPT ![c] = IF rx[t1_receive].pc = "new"
                                    THEN "idle" ELSE "raised"]
    /\ UNCHANGED <<t1_receive, t1_stop, mutex, buffer, format_string,
                   decoded, received, lateRecv, noop, txVars, warnings, timeVars, codec>>

\* udp.t1_stop = True
stop_receiving(c) ==
    /\ cpc[c] = "idle"
    /\ t1_stop' = TRUE
    /\ UNCHANGED <<t1_receive, mutex, buffer, format_string, rx, cpc,
                   decoded, received, lateRecv, noop, txVars, warnings, timeVars, codec>>

\* the caller reads udp.buffer: the class has no accessor and the attribute
\* is read as it is, the mutex not involved
read_buffer(c) ==
    /\ cpc[c] = "idle"
    /\ snapshot' = buffer
    /\ UNCHANGED <<rxVars, txVars, warnings, timeVars, codec>>
    /\ UNCHANGED <<lateCall, lateSend, bornStopped>>

\* ------------------------------------------------------------- send_message
\* send_message without the len(msg) > 0 test
send_message_unguarded(by, send_data, fmt, accepted) ==
    LET p == pack_tx_data(send_data, fmt)
    IN  /\ writes' = Append(writes, [by |-> by, msg |-> p.all_data, ok |-> accepted])
        /\ warnings' = warnings \o p.warned \o
                         (IF accepted THEN <<>> ELSE <<"sendto">>)

\* msg = __pack_tx_data(...); sendto when len(msg) > 0, else the warning.
\* `by` is 0 for a call of the caller, else the cyclic thread calling;
\* `accepted` is FALSE when sendto raises socket.error
send_message(by, send_data, fmt, accepted) ==
    LET p == pack_tx_data(send_data, fmt)
    IN  IF Len(p.all_data) > 0
          THEN /\ writes' = Append(writes, [by |-> by, msg |-> p.all_data,
                                            ok |-> accepted])
               /\ warnings' = warnings \o p.warned \o
                                (IF accepted THEN <<>> ELSE <<"sendto">>)
          ELSE /\ writes' = writes
               /\ warnings' = warnings \o p.warned \o <<"len0">>

\* send_once with socket.error not caught: a refused sendto is not reported
\* and ends the caller
send_once_propagates(c, send_data, fmt, accepted) ==
    /\ cpc[c] = "idle"
    /\ UNCHANGED <<t1_receive, t1_stop, mutex, buffer, format_string, rx,
                   decoded, received, lateRecv, noop, t2_stop, cyc, timeVars, codec>>
    /\ LET p == pack_tx_data(send_data, fmt)
       IN  IF accepted \/ Len(p.all_data) = 0
             THEN send_message(0, send_data, fmt, accepted) /\ UNCHANGED cpc
             ELSE /\ writes' = Append(writes, [by |-> 0, msg |-> p.all_data,
                                               ok |-> FALSE])
                  /\ warnings' = warnings \o p.warned
                  /\ cpc' = [cpc EXCEPT ![c] = "dead"]

\* udp.send_message(send_data, send_data_format) from the caller
send_once(c, send_data, fmt, accepted) ==
    /\ cpc[c] = "idle"
    /\ UNCHANGED <<rxVars, t2_stop, cyc, timeVars, codec>>
    /\ send_message(0, send_data, fmt, accepted)

\* -------------------------------------------------------- the cyclic send loop
\* run_send_cyclic_thread clearing the flag for the thread it starts
run_send_cyclic_thread_rearms(c, send_data, fmt, interval_time) ==
    /\ cpc[c] = "idle"
    /\ \E i \in CycIds :
         /\ cyc[i].pc = "none"
         /\ \A j \in CycIds : j < i => cyc[j].pc # "none"
         /\ cyc' = [cyc EXCEPT ![i] = [pc |-> "check", send_data |-> send_data,
                                       fmt |-> fmt, interval |-> interval_time,
                                       wake |-> 0]]
    /\ t2_stop' = FALSE
    /\ timing' = IF timing.startAt < 0 THEN [timing EXCEPT !.startAt = now]
                 ELSE timing
    /\ UNCHANGED <<rxVars, writes, warnings, now, codec>>

\* t2 = threading.Thread(target=self.__send_cyclic_thread, args=[...]); t2.start()
run_send_cyclic_thread(c, send_data, fmt, interval_time) ==
    /\ cpc[c] = "idle"
    /\ \E i \in CycIds :
         /\ cyc[i].pc = "none"
         /\ \A j \in CycIds : j < i => cyc[j].pc # "none"
         /\ cyc' = [cyc EXCEPT ![i] = [pc |-> "check", send_data |-> send_data,
                                       fmt |-> fmt, interval |-> interval_time,
                                       wake |-> 0]]
    /\ timing' = IF timing.startAt < 0 THEN [timing EXCEPT !.startAt = now]
                 ELSE timing
    /\ UNCHANGED <<rxVars, t2_stop, writes, warnings, now, codec>>

\* cyc_check with the loop clearing the flag it has seen set
cyc_check_resets(i) ==
    /\ cyc[i].pc = "check"
    /\ IF t2_stop
         THEN cyc' = [cyc EXCEPT ![i].pc = "done"] /\ t2_stop' = FALSE
         ELSE cyc' = [cyc EXCEPT ![i].pc = "send"] /\ UNCHANGED t2_stop
    /\ UNCHANGED <<rxVars, writes, warnings, timeVars, codec>>

\* while not self.t2_stop
cyc_check(i) ==
    /\ cyc[i].pc = "check"
    /\ IF t2_stop
         THEN cyc' = [cyc EXCEPT ![i].pc = "done"]
         ELSE cyc' = [cyc EXCEPT ![i].pc = "send"]
    /\ UNCHANGED <<rxVars, t2_stop, writes, warnings, timeVars, codec>>

\* cyc_send with a sleep of half the interval
cyc_send_short_nap(i, accepted) ==
    /\ cyc[i].pc = "send"
    /\ send_message(i, cyc[i].send_data, cyc[i].fmt, accepted)
    /\ cyc' = [cyc EXCEPT ![i].pc = "sleep",
                          ![i].wake = now + cyc[i].interval \div 2]
    /\ UNCHANGED <<rxVars, t2_stop, timeVars, codec>>

\* self.send_message(send_data, send_data_format); then time.sleep begins
cyc_send(i, accepted) ==
    /\ cyc[i].pc = "send"
    /\ send_message(i, cyc[i].send_data, cyc[i].fmt, accepted)
    /\ cyc' = [cyc EXCEPT ![i].pc = "sleep", ![i].wake = now + cyc[i].interval]
    /\ UNCHANGED <<rxVars, t2_stop, timeVars, codec>>

\* cyc_wake with the flag tested before the sleep, not after: the thread
\* wakes up into the next send_message
cyc_wake_into_send(i) ==
    /\ cyc[i].pc = "sleep"
    /\ cyc' = [cyc EXCEPT ![i].pc = "send"]
    /\ UNCHANGED <<rxVars, t2_stop, writes, warnings, timeVars, codec>>

\* time.sleep(interval_time) returns
cyc_wake(i) ==
    /\ cyc[i].pc = "sleep"
    /\ cyc' = [cyc EXCEPT ![i].pc = "check"]
    /\ UNCHANGED <<rxVars, t2_stop, writes, warnings, timeVars, codec>>

\* udp.t2_stop = True
stop_cyclic_send(c) ==
    /\ cpc[c] = "idle"
    /\ t2_stop' = TRUE
    /\ timing' = IF timing.stopAt < 0 THEN [timing EXCEPT !.stopAt = now]
                 ELSE timing
    /\ UNCHANGED <<rxVars, cyc, writes, warnings, now, codec>>

\* ------------------------------------------------------------ the whole program
\* events a send_message call adds
SendCost(send_data, fmt, accepted) ==
    NeedEvents(send_data, fmt) + (IF accepted THEN 0 ELSE 1)

\* recvfrom of thread k returns, one way or another
recv_returns(k) ==
    \/ rx_timeout(k)
    \/ Room(1) /\ rx_error(k)
    \/ \E raw \in RawSamples :
         /\ Room(IF decode(format_string, raw).ok THEN 1 ELSE 2)
         /\ rx_data(k, raw)

\* a step of receive thread k
rx_step(k) ==
    \/ rx_check(k)
    \/ recv_returns(k)
    \/ rx_acquire(k)
    \/ rx_append(k)
    \/ rx_release(k)

\* a step of cyclic send thread i; a new iteration begins only with room for it
cyc_step(i) ==
    \/ (t2_stop \/ Room(NeedEvents(cyc[i].send_data, cyc[i].fmt))) /\ cyc_check(i)
    \/ \E a \in BOOLEAN : (a \/ Room(1)) /\ cyc_send(i, a)
    \/ cyc_wake(i)

\* a call made by caller c
caller_step(c) ==
    \/ rrt_check(c)
    \/ rrt_create(c)
    \/ rrt_start(c)
    \/ stop_receiving(c)
    \/ \E d \in SendSamples, f \in {"B", "b"}, a \in BOOLEAN :
         Room(SendCost(d, f, a)) /\ send_once(c, d, f, a)
    \/ \E d \in {<<1>>, <<300>>} :
         Room(1) /\ run_send_cyclic_thread(c, d, "B", 1)
    \/ stop_cyclic_send(c)

\* a step of receive thread k with nothing more observed of it
rx_run(k) == rx_step(k) /\ UNCHANGED obsVars

\* the program alone: nothing is observed beyond the histories its steps keep
Next ==
    \/ \E k \in RxIds : rx_run(k)
    \/ \E i \in CycIds : cyc_step(i) /\ UNCHANGED obsVars
    \/ caller_step(MainCaller) /\ UNCHANGED obsVars

Spec == Init /\ [][Next]_vars

\* ------------------------------------------------ the program and a reader
\* the caller starts and stops the loops and looks at the Buffer, at any
\* moment; it sends nothing itself
BufferNext ==
    \/ \E k \in RxIds : rx_run(k)
    \/ \E i \in CycIds : cyc_step(i) /\ UNCHANGED obsVars
    \/ rrt_check(MainCaller) /\ UNCHANGED obsVars
    \/ rrt_create(MainCaller) /\ UNCHANGED obsVars
    \/ rrt_start(MainCaller) /\ UNCHANGED obsVars
    \/ stop_receiving(MainCaller) /\ UNCHANGED obsVars
    \/ Room(1) /\ run_send_cyclic_thread(MainCaller, <<1>>, "B", 1) /\ UNCHANGED obsVars
    \/ stop_cyclic_send(MainCaller) /\ UNCHANGED obsVars
    \/ read_buffer(MainCaller)

BufferSpec == Init /\ [][BufferNext]_vars

\* ------------------------------------------- two callers of run_receive_thread
\* two threads of the application call run_receive_thread, their steps
\* interleaved in any order
RaceNext ==
    \/ \E k \in RxIds : rx_run(k)
    \/ \E c \in Callers : rrt_check(c) /\ UNCHANGED obsVars
    \/ \E c \in Callers : rrt_create(c) /\ UNCHANGED obsVars
    \/ \E c \in Callers : rrt_start(c) /\ UNCHANGED obsVars
    \/ stop_receiving(MainCaller) /\ UNCHANGED obsVars

RaceSpec == Init /\ [][RaceNext]_vars

\* ------------------------------------------------- the receive side, scheduled
\* the caller starts and stops receiving; nothing is sent
\* and a run_receive_thread call that finds the loop ended is noted
RxNext ==
    \/ \E k \in RxIds : rx_run(k)
    \/ /\ rrt_check(MainCaller)
       /\ lateCall' = (lateCall \/ (t1_receive # EmptyList /\ rx[t1_receive].pc = "done"))
       /\ UNCHANGED <<snapshot, lateSend, bornStopped>>
    \/ rrt_create(MainCaller) /\ UNCHANGED obsVars
    \/ rrt_start(MainCaller) /\ UNCHANGED obsVars
    \/ stop_receiving(MainCaller) /\ UNCHANGED obsVars

\* the receive thread is scheduled, and recvfrom returns within its timeout
FairRxSpec == Init /\ [][RxNext]_vars /\ \A k \in RxIds : WF_vars(rx_run(k))

\* ---------------------------------------------------- the send side, scheduled
\* sendto calls made with the stop flag set, counted up to two
lateWrite(i) ==
    IF /\ cyc[i].pc = "send"
       /\ t2_stop
       /\ lateSend[i] < 2
       /\ Len(pack_tx_data(cyc[i].send_data, cyc[i].fmt).all_data) > 0
      THEN [lateSend EXCEPT ![i] = @ + 1] ELSE lateSend

\* a step of cyclic send thread i, its writes under a set flag counted
cyc_run(i) ==
    /\ cyc_step(i)
    /\ lateSend' = lateWrite(i)
    /\ UNCHANGED <<lateCall, snapshot, bornStopped>>

\* the caller starts cyclic sends, sends once and sets t2_stop, in any order;
\* a thread created with the flag set is noted
TxNext ==
    \/ \E i \in CycIds : cyc_run(i)
    \/ \E d \in {<<1>>, <<300>>} :
         /\ Room(1)
         /\ run_send_cyclic_thread(MainCaller, d, "B", 1)
         /\ bornStopped' = [i \in CycIds |->
                               IF cyc[i].pc = "none" /\ cyc'[i].pc # "none"
                                 THEN t2_stop ELSE bornStopped[i]]
         /\ UNCHANGED <<lateCall, snapshot, lateSend>>
    \/ \E d \in SendSamples, a \in BOOLEAN :
         Room(SendCost(d, "B", a)) /\ send_once(MainCaller, d, "B", a)
                                   /\ UNCHANGED obsVars
    \/ stop_cyclic_send(MainCaller) /\ UNCHANGED obsVars

\* every cyclic send thread is scheduled, and time.sleep returns
FairTxSpec == Init /\ [][TxNext]_vars /\ \A i \in CycIds : WF_vars(cyc_run(i))

\* ------------------------------------------- one cyclic send against the clock
\* the caller of the scenario sets t2_stop 2.5 intervals after the start
StopDue ==
    /\ timing.startAt >= 0
    /\ ~t2_stop
    /\ 2 * (now - timing.startAt) >= 5 * cyc[1].interval

\* a tick passes: no thread is between its wake-up and its sleep, no sleep is
\* overdue by more than half its interval, and the stop is not due
Tick ==
    /\ now < MaxTime
    /\ \A i \in CycIds : cyc[i].pc \notin {"check", "send"}
    /\ \A i \in CycIds :
         cyc[i].pc = "sleep" => now < cyc[i].wake + cyc[i].interval \div 2
    /\ ~StopDue
    /\ now' = now + 1
    /\ UNCHANGED <<rxVars, txVars, warnings, timing, codec, obsVars>>

TimedNext ==
    \/ \E d \in SendSamples, T \in {2, 4} :
         /\ timing.startAt < 0
         /\ run_send_cyclic_thread(MainCaller, d, "B", T)
         /\ UNCHANGED obsVars
    \/ \E i \in CycIds : cyc_check(i) /\ UNCHANGED obsVars
    \/ \E i \in CycIds, a \in BOOLEAN : cyc_send(i, a) /\ UNCHANGED obsVars
    \/ \E i \in CycIds : now >= cyc[i].wake /\ cyc_wake(i) /\ UNCHANGED obsVars
    \/ StopDue /\ stop_cyclic_send(MainCaller) /\ UNCHANGED obsVars
    \/ Tick

TimedSpec == Init /\ [][TimedNext]_vars

\* ------------------------------------------------- encode, then decode, alone
Values == {-1, 0, 1, 127, 128, 255, 256, 300}
Payloads == UNION {[1..m -> Values] : m \in 0..MaxLen}

CodecInit ==
    /\ InitProgram
    /\ \E v \in Payloads, f \in Formats, g \in Formats :
         codec = [NoCodec EXCEPT !.pc = "in", !.v = v, !.fmt = f, !.dfmt = g]

\* msg = self.__pack_tx_data(send_data, send_data_format), warnings and all
codec_encode ==
    /\ codec.pc = "in"
    /\ codec' = [codec EXCEPT !.pc = "packed",
                              !.msg = pack_tx_data(codec.v, codec.fmt).all_data]
    /\ warnings' = warnings \o pack_tx_data(codec.v, codec.fmt).warned
    /\ UNCHANGED <<rxVars, txVars, timeVars, obsVars>>

\* recv_data = struct.unpack(self.format_string * len(raw_data), raw_data)
codec_decode ==
    /\ codec.pc = "packed"
    /\ codec' = [codec EXCEPT !.pc = "done", !.out = decode(codec.dfmt, codec.msg)]
    /\ UNCHANGED <<rxVars, txVars, warnings, timeVars, obsVars>>

CodecNext == codec_encode \/ codec_decode

CodecSpec == CodecInit /\ [][CodecNext]_vars

\* ================================================================== claims
RxRunning == {"check", "recv", "acquire", "append", "release"}
CycRunning == {"check", "send", "sleep"}

\* no receive thread is between a successful unpack and its append
Processed == \A k \in RxIds : rx[k].pc \notin {"acquire", "append"}

\* C1: with one caller thread, at most one receive thread is ever created, it
\* is the one t1_receive holds, and no datagram has more than one Buffer entry
C1_SingleReceiveLoop ==
    /\ Cardinality({k \in RxIds : rx[k].pc # "none"}) <= 1
    /\ \A k \in RxIds : rx[k].pc # "none" => t1_receive = k
    /\ Len(buffer) <= 1 + received

\* a later call was a no-op and the one datagram received has its one entry
C1_Witness ==
    /\ noop
    /\ rx[1].pc = "release"
    /\ received = 1
    /\ Len(buffer) = 2

\* C2: in no state are two cyclic send loops running
C2_AtMostOneCyclicLoop ==
    Cardinality({i \in CycIds : cyc[i].pc \in CycRunning}) <= 1

\* C3: once t1_stop is set a running receive loop exits, and it completes at
\* most one recvfrom call with the flag set
C3_StopExitsLoop ==
    /\ \A k \in RxIds : (t1_stop /\ rx[k].pc \in RxRunning) ~> (rx[k].pc = "done")
    /\ [](\A k \in RxIds : lateRecv[k] <= 1)

\* the loop has exited after one more recvfrom, the transport never giving data
C3_Witness ==
    /\ t1_stop
    /\ rx[1].pc = "done"
    /\ lateRecv[1] = 1
    /\ received = 0

\* C4 as claimed: after N >= 1 datagrams, all decoded, the Buffer has length N
C4_LengthIsN ==
    (Processed /\ received >= 1 /\ Len(decoded) = received) => Len(buffer) = received

\* C4 amended: after N datagrams, all decoded, the Buffer is the initial marker
\* entry followed by the N payloads, each once, in the order they were decoded
C4_MarkerThenPayloads ==
    (Processed /\ Len(decoded) = received) =>
        /\ Len(buffer) = received + 1
        /\ buffer[1] = <<Marker>>
        /\ \A n \in 1..received : buffer[n + 1] = <<decoded[n]>>

\* two datagrams have been decoded and appended
C4_Witness ==
    /\ Processed
    /\ received = 2
    /\ Len(decoded) = 2
    /\ Len(buffer) = 3

\* C5: under 'B' on both sides, a payload of values in 0..255 decodes from its
\* encoding to itself
C5_RoundTrip ==
    ( /\ codec.pc = "done"
      /\ codec.fmt = "B"
      /\ codec.dfmt = "B"
      /\ \A i \in 1..Len(codec.v) : codec.v[i] >= 0 /\ codec.v[i] <= 255 )
    => (codec.out.ok /\ codec.out.data = codec.v)

\* <<255, 128>> has made the round trip
C5_Witness ==
    /\ codec.pc = "done"
    /\ codec.fmt = "B"
    /\ codec.dfmt = "B"
    /\ codec.v = <<255, 128>>
    /\ codec.msg = <<255, 128>>
    /\ codec.out.ok

\* x is outside the range of format f: 0..255 for 'B', -128..127 for 'b'
OutOfRange(f, x) == IF f = "B" THEN x < 0 \/ x > 255 ELSE x < -128 \/ x > 127

\* the send_data lists and formats with no value in range
AllOutOfRange ==
    {p \in SendSamples \X {"B", "b"} : \A i \in 1..Len(p[1]) : OutOfRange(p[2], p[1][i])}

\* C6: a send_message call of the caller whose values are all out of range
\* for its format makes no sendto call and prints, after one warning for each
\* value, the length-0 warning
C6_EmptyEncodeNoWrite ==
    [][\A p \in AllOutOfRange, a \in BOOLEAN :
         send_once(MainCaller, p[1], p[2], a)
         => /\ writes' = writes
            /\ warnings' = warnings \o [i \in 1..Len(p[1]) |-> "pack"] \o <<"len0">>]_vars

\* send_message([255, 300], 'b') has returned: three warnings, no sendto call
C6_Witness ==
    /\ warnings = <<"pack", "pack", "len0">>
    /\ writes = <<>>
    /\ \A i \in CycIds : cyc[i].pc = "none"

\* the one cyclic send was stopped 2.5 intervals after its start and has ended
ScenarioDone ==
    /\ timing.startAt >= 0
    /\ 2 * (timing.stopAt - timing.startAt) = 5 * cyc[1].interval
    /\ cyc[1].pc = "done"

Encoded(i) == pack_tx_data(cyc[i].send_data, cyc[i].fmt).all_data

\* C7 as claimed: the scenario makes 2 or 3 sendto calls, each with encode(v)
C7_TwoOrThreeWrites ==
    ScenarioDone =>
        /\ Len(writes) \in {2, 3}
        /\ \A j \in 1..Len(writes) : writes[j].msg = Encoded(1)

\* C7 amended: it makes 2 or 3 sendto calls, each with encode(v), when
\* encode(v) is not empty, and none when it is
C7_WritesUnlessEmpty ==
    ScenarioDone =>
        IF Len(Encoded(1)) > 0
          THEN /\ Len(writes) \in {2, 3}
               /\ \A j \in 1..Len(writes) : writes[j].by = 1 /\ writes[j].msg = Encoded(1)
          ELSE writes = <<>>

\* the scenario has ended after three sendto calls of a partly encodable payload
C7_Witness ==
    /\ ScenarioDone
    /\ cyc[1].send_data = <<255, 300>>
    /\ Len(writes) = 3

\* C8: a datagram whose length is no multiple of the element width fails to
\* decode: the warning is printed and no payload comes of it
C8_MisalignedFails ==
    [][\A k \in RxIds, raw \in RawSamples :
         (rx_data(k, raw) /\ Len(raw) % calcsize(format_string) # 0)
         => /\ warnings' = Append(warnings, "unpack")
            /\ decoded' = decoded
            /\ rx'[k].pc # "acquire"
            /\ rx'[k].recv_data = rx[k].recv_data]_vars

\* a one-byte datagram was refused under 'H'
C8_Witness ==
    /\ format_string = "H"
    /\ rx[1].raw_data = <<7>>
    /\ warnings = <<"unpack">>
    /\ decoded = <<>>

\* C9: a loop that has ended had its stop flag set
C9_OnlyStopEnds ==
    /\ \A k \in RxIds : rx[k].pc = "done" => t1_stop
    /\ \A i \in CycIds : cyc[i].pc = "done" => t2_stop

\* both loops run on, flags unset, after a transport error, an encode overflow
\* and an empty encode result
C9_Witness ==
    /\ ~t1_stop /\ ~t2_stop
    /\ rx[1].pc \in RxRunning
    /\ cyc[1].pc \in CycRunning
    /\ \E a, b, c \in 1..Len(warnings) :
         warnings[a] = "recv" /\ warnings[b] = "pack" /\ warnings[c] = "len0"

\* C10 as claimed: every datagram received and dealt with has an entry in the
\* Buffer, a payload or a failure marker
C10_FailureKept == Processed => Len(buffer) >= 1 + received

\* C10 amended: a datagram that fails to decode gets a warning and no entry,
\* the Buffer and the mutex are as before, and the loop is back at its head
C10_FailureReported ==
    [][\A k \in RxIds, raw \in RawSamples :
         (rx_data(k, raw) /\ ~decode(format_string, raw).ok)
         => /\ warnings' = Append(warnings, "unpack")
            /\ buffer' = buffer
            /\ mutex' = mutex
            /\ rx'[k].pc = "check"]_vars

\* after a failed decode the thread is in recvfrom again
C10_Witness ==
    /\ warnings = <<"unpack">>
    /\ received = 1
    /\ Len(buffer) = 1
    /\ rx[1].pc = "recv"

\* s is an initial part of t
IsPrefix(s, t) == Len(s) <= Len(t) /\ SubSeq(t, 1, Len(s)) = s

\* C11: no step removes, reorders or changes a Buffer entry (the Buffer before
\* the step is a prefix of the Buffer after it), and the entries after the
\* initial marker are payloads in the order struct.unpack returned them
C11_AppendOnly ==
    /\ [][IsPrefix(buffer, buffer')]_vars
    /\ [](/\ Len(buffer) - 1 <= Len(decoded)
          /\ \A n \in 1..(Len(buffer) - 1) : buffer[n + 1] = <<decoded[n]>>)

\* two different payloads were appended, in the order they were decoded
C11_Witness ==
    /\ Len(buffer) = 3
    /\ buffer[2] = << <<7>> >>
    /\ buffer[3] = << <<255, 1>> >>
    /\ decoded = << <<7>>, <<255, 1>> >>

RxPhase(pc) == IF pc \in {"none", "new"} THEN 0 ELSE IF pc = "done" THEN 2 ELSE 1

\* C13: a receive thread's state only moves forward, Idle to Running to
\* Stopped, and once a receive loop has ended no step creates or starts a
\* receive thread
C13_StoppedIsTerminal ==
    [][/\ \A k \in RxIds :
            /\ RxPhase(rx'[k].pc) >= RxPhase(rx[k].pc)
            /\ RxPhase(rx'[k].pc) <= RxPhase(rx[k].pc) + 1
       /\ (\E k \in RxIds : rx[k].pc = "done") =>
            /\ \A j \in RxIds : rx[j].pc \in {"none", "new"} => rx'[j].pc = rx[j].pc
            /\ t1_receive' = t1_receive]_vars

\* run_receive_thread was called after the loop's exit and started nothing
C13_Witness ==
    /\ lateCall
    /\ rx[1].pc = "done"
    /\ cpc[MainCaller] = "idle"
    /\ \A j \in RxIds \ {1} : rx[j].pc = "none"

\* the mutex is held only by a receive thread inside its critical section, so
\* by no thread waiting in recvfrom or asleep in time.sleep
HeldInsideOnly ==
    mutex # 0 => (mutex \in RxIds /\ rx[mutex].pc \in {"append", "release"})

\* a step that changes the Buffer is the append of the thread holding the
\* mutex, and the thread gives the mutex up when it leaves the critical section
AppendsLocked ==
    /\ buffer' # buffer =>
         \E k \in RxIds : mutex = k /\ mutex' = k /\ rx[k].pc = "append"
                           /\ rx'[k].pc = "release"
    /\ \A k \in RxIds :
         (rx[k].pc = "release" /\ rx'[k].pc # "release") => (mutex = k /\ mutex' = 0)

C15_TimeoutChangesNothing ==
    [][\A k \in RxIds :
         /\ rx_timeout(k) =>
              /\ buffer' = buffer /\ t1_stop' = t1_stop /\ t2_stop' = t2_stop
              /\ t1_receive' = t1_receive /\ mutex' = mutex
              /\ warnings' = warnings /\ writes' = writes
              /\ rx'[k].pc = "check"
         /\ rx_error(k) =>
              /\ buffer' = buffer /\ t1_stop' = t1_stop /\ t2_stop' = t2_stop
              /\ t1_receive' = t1_receive /\ mutex' = mutex
              /\ warnings' = Append(warnings, "recv")
              /\ rx'[k].pc = "check"]_vars

\* recvfrom timed out, with the stop flag set meanwhile, and the thread is
\* back at the loop head: nothing received, nothing printed, Buffer as built
C15_Witness ==
    /\ rx[1].pc = "check"
    /\ lateRecv[1] = 1
    /\ received = 0
    /\ warnings = <<>>
    /\ buffer = << <<Marker>> >>

\* x is within the width format f declares
InWidth(f, x) ==
    IF f = "B" THEN x \in 0..255
    ELSE IF f = "b" THEN x \in -128..127
    ELSE x \in 0..65535

\* the values of v that are within the width of f, in order
Kept(v, f) == SelectSeq(v, LAMBDA x : InWidth(f, x))

\* C16: __pack_tx_data returns for every input; the result is the packed forms
\* of the values within the width, in order and nothing else, one warning is
\* printed for each value left out, and the result is empty exactly when no
\* value is within the width
C16_EncodeSkipsAndWarns ==
    /\ codec.pc = "in" => ENABLED codec_encode
    /\ codec.pc \in {"packed", "done"} =>
         LET kept == Kept(codec.v, codec.fmt)
             w == calcsize(codec.fmt)
         IN  /\ Len(codec.msg) = w * Len(kept)
             /\ \A n \in 1..Len(kept) :
                  SubSeq(codec.msg, (n - 1) * w + 1, n * w) = struct_pack(codec.fmt, kept[n])
             /\ warnings = [n \in 1..(Len(codec.v) - Len(kept)) |-> "pack"]
             /\ (codec.msg = <<>>) <=> (kept = <<>>)

\* [300, 255] under 'B': 300 left out with one warning, 255 packed
C16_Witness ==
    /\ codec.pc = "packed"
    /\ codec.fmt = "B"
    /\ codec.v = <<300, 255>>
    /\ codec.msg = <<255>>
    /\ warnings = <<"pack">>

\* the send_data lists and formats of which at least one value is packed
SomePacked ==
    {p \in SendSamples \X {"B", "b"} : Len(pack_tx_data(p[1], p[2]).all_data) > 0}

\* C17: a send_message call of the caller with a non-empty encode result makes
\* one sendto call, with that result; it prints the send warning when sendto
\* is refused and nothing of the kind otherwise; either way the caller is back
\* in control, and the Buffer, the flags and the loops are as they were
C17_OneWriteErrorContained ==
    [][(Len(writes') > Len(writes) /\ writes'[Len(writes')].by = 0) =>
       \A p \in SomePacked, a \in BOOLEAN :
         send_once(MainCaller, p[1], p[2], a)
         => LET e == pack_tx_data(p[1], p[2])
            IN  /\ writes' = Append(writes, [by |-> 0, msg |-> e.all_data, ok |-> a])
                /\ warnings' = warnings \o e.warned \o
                                 (IF a THEN <<>> ELSE <<"sendto">>)
                /\ cpc' = cpc
                /\ buffer' = buffer /\ mutex' = mutex
                /\ t1_stop' = t1_stop /\ t2_stop' = t2_stop
                /\ rx' = rx /\ cyc' = cyc]_vars

\* a send_message call refused by the transport, then one that went through,
\* the receive loop running all along
C17_Witness ==
    /\ Len(writes) = 2
    /\ writes[1] = [by |-> 0, msg |-> <<255>>, ok |-> FALSE]
    /\ writes[2] = [by |-> 0, msg |-> <<1>>, ok |-> TRUE]
    /\ warnings = <<"pack", "sendto">>
    /\ rx[1].pc \in RxRunning
    /\ ~t1_stop /\ ~t2_stop

\* the step makes no sendto call for thread i
NoWriteBy(i) == Len(writes') > Len(writes) => writes'[Len(writes')].by # i

\* C18: with t2_stop set a running cyclic send loop makes at most one more
\* sendto call and then ends, and a loop that has found the flag set and
\* ended makes none
C18_StopEndsCyclicLoop ==
    /\ \A i \in CycIds : (t2_stop /\ cyc[i].pc \in CycRunning) ~> (cyc[i].pc = "done")
    /\ [](\A i \in CycIds : lateSend[i] <= 1)
    /\ [][\A i \in CycIds :
            cyc[i].pc = "done" => (cyc'[i].pc = "done" /\ NoWriteBy(i))]_vars

\* the flag was set while the loop was between its check and its sendto: one
\* more write, then the loop ended
C18_Witness ==
    /\ t2_stop
    /\ cyc[1].pc = "done"
    /\ lateSend[1] = 1
    /\ Len(writes) = 1
    /\ writes[1].by = 1

\* the sendto calls thread i has made
WritesBy(i) == {j \in 1..Len(writes) : writes[j].by = i}

\* C19: once t2_stop is set every cyclic send loop ends, however many were
\* started, and a loop whose thread was created with the flag set is at its
\* first check or has ended there, no sendto call made
C19_OneFlagStopsAll ==
    /\ t2_stop ~> (\A i \in CycIds : cyc[i].pc \notin CycRunning)
    /\ [](\A i \in CycIds :
            bornStopped[i] => /\ cyc[i].pc \in {"check", "done"}
                              /\ cyc[i].wake = 0
                              /\ WritesBy(i) = {}
                              /\ lateSend[i] = 0)

\* two loops ended by the one flag: the first after a write, the second,
\* started after the flag was set, without any
C19_Witness ==
    /\ t2_stop
    /\ cyc[1].pc = "done" /\ ~bornStopped[1] /\ WritesBy(1) # {}
    /\ cyc[2].pc = "done" /\ bornStopped[2] /\ WritesBy(2) = {}
    /\ cyc[2].send_data = <<1>>

\* C20: with two threads calling run_receive_thread, at most one receive
\* thread is created and started
C20_OneLoopUnderRace ==
    Cardinality({k \in RxIds : rx[k].pc \notin {"none", "new"}}) <= 1

====
